---- MODULE Spec2Model ----
(***************************************************************************)
(* A model of visualize_bbox.py: resolution of "$ref" references inside a  *)
(* converted document, grouping of the main-text elements per page, the    *)
(* PDF-to-raster rectangle of draw_boxes, and the archive loop that        *)
(* renders every page of every document into saving.html.                  *)
(*                                                                         *)
(* Python strings are sequences of one-character strings, so that split,   *)
(* int() and "in" are computed and not assumed.  A JSON value is a record  *)
(* of one fixed shape, tagged by its kind:                                 *)
(*   map    keys (sequence of strings) and vals (their values, in order)   *)
(*   list   vals                                                           *)
(*   str    s                                                              *)
(*   int    n                                                              *)
(*   float  n, the value in half units (n = 3 is 1.5)                      *)
(***************************************************************************)
EXTENDS Integers, Sequences, FiniteSets, TLC

VARIABLES
    raw_item,       \* resolve_item: the main-text entry handed in
    doc,            \* resolve_item / page_elements_from_json_document: the document
    result,         \* outcome of the last call of the function under study
    bbox,           \* draw_boxes: cluster["bbox"], four numbers in half units
    dims,           \* draw_boxes: (width, height) in half units
    rect,           \* draw_boxes: the rectangle handed to drw.rectangle
    batch,          \* archive loop: the data files of the archives, in order
    idx,            \* archive loop: position of the entry being handled
    pc,             \* archive loop: where the script is
    clusters,       \* visualize_document_bboxes: page -> boxes
    pages,          \* visualize_document_bboxes: sorted(clusters.keys())
    i,              \* visualize_document_bboxes: loop index over pages
    output_html,    \* visualize_document_bboxes: the table built so far
    file,           \* content of saving.html
    visualized,     \* positions of the entries whose table was displayed
    exc             \* the exception that ended the script, "" if none

vars == <<raw_item, doc, result, bbox, dims, rect, batch, idx, pc, clusters,
          pages, i, output_html, file, visualized, exc>>

-----------------------------------------------------------------------------
(* JSON values *)

JInt(n) == [kind |-> "int", keys |-> <<>>, vals |-> <<>>, s |-> <<>>, n |-> n]

JFloat(h) == [kind |-> "float", keys |-> <<>>, vals |-> <<>>, s |-> <<>>, n |-> h]

JStr(cs) == [kind |-> "str", keys |-> <<>>, vals |-> <<>>, s |-> cs, n |-> 0]

JList(vs) == [kind |-> "list", keys |-> <<>>, vals |-> vs, s |-> <<>>, n |-> 0]

JMap(ks, vs) == [kind |-> "map", keys |-> ks, vals |-> vs, s |-> <<>>, n |-> 0]

\* {} : what resolve_item returns for a reference it gives up on
EmptyElement == JMap(<<>>, <<>>)

\* the outcome of a call: a returned value or a raised exception
Return(v) == [outcome |-> "return", value |-> v, exc |-> ""]

Raise(e) == [outcome |-> "raise", value |-> EmptyElement, exc |-> e]

NotCalled == [outcome |-> "none", value |-> EmptyElement, exc |-> ""]

HasKey(m, k) == \E j \in 1..Len(m.keys) : m.keys[j] = k

MapGet(m, k) == m.vals[CHOOSE j \in 1..Len(m.keys) : m.keys[j] = k]

\* the keys the script reads
K_ref == <<"$", "r", "e", "f">>

K_prov == <<"p", "r", "o", "v">>

K_page == <<"p", "a", "g", "e">>

K_type == <<"t", "y", "p", "e">>

K_bbox == <<"b", "b", "o", "x">>

K_width == <<"w", "i", "d", "t", "h">>

K_height == <<"h", "e", "i", "g", "h", "t">>

K_main_text == <<"m", "a", "i", "n", "-", "t", "e", "x", "t">>

K_page_dimensions == <<"p", "a", "g", "e", "-", "d", "i", "m", "e", "n", "s", "i", "o", "n", "s">>

-----------------------------------------------------------------------------
(* str.split(sep), int(str), "in", and subscripting, as Python computes them *)

RECURSIVE split(_, _)
split(s, sep) ==
    IF \A j \in 1..Len(s) : s[j] # sep
    THEN <<s>>
    ELSE LET p == CHOOSE j \in 1..Len(s) :
                      s[j] = sep /\ \A q \in 1..(j - 1) : s[q] # sep
         IN  <<SubSeq(s, 1, p - 1)>> \o split(SubSeq(s, p + 1, Len(s)), sep)

IsSpace(c) == c \in {" ", "\t", "\n", "\r"}

IsDigit(c) == c \in {"0", "1", "2", "3", "4", "5", "6", "7", "8", "9"}

DigitVal(c) ==
    CASE c = "0" -> 0 [] c = "1" -> 1 [] c = "2" -> 2 [] c = "3" -> 3
      [] c = "4" -> 4 [] c = "5" -> 5 [] c = "6" -> 6 [] c = "7" -> 7
      [] c = "8" -> 8 [] c = "9" -> 9

RECURSIVE strip(_)
strip(s) ==
    IF s = <<>> THEN s
    ELSE IF IsSpace(s[1]) THEN strip(Tail(s))
    ELSE IF IsSpace(s[Len(s)]) THEN strip(SubSeq(s, 1, Len(s) - 1))
    ELSE s

\* the text of an int literal without its sign
IntBody(k) ==
    LET t == strip(k)
    IN  IF t # <<>> /\ t[1] \in {"+", "-"} THEN Tail(t) ELSE t

\* int(k) succeeds: optional sign, digits, single underscores between digits
IntParses(k) ==
    LET b == IntBody(k)
    IN  /\ b # <<>>
        /\ IsDigit(b[1])
        /\ IsDigit(b[Len(b)])
        /\ \A j \in 1..Len(b) : IsDigit(b[j]) \/ b[j] = "_"
        /\ \A j \in 1..(Len(b) - 1) : ~(b[j] = "_" /\ b[j + 1] = "_")

RECURSIVE DigitsValue(_)
DigitsValue(b) ==
    IF b = <<>> THEN 0
    ELSE IF b[Len(b)] = "_" THEN DigitsValue(SubSeq(b, 1, Len(b) - 1))
    ELSE 10 * DigitsValue(SubSeq(b, 1, Len(b) - 1)) + DigitVal(b[Len(b)])

IntValue(k) ==
    LET t == strip(k)
    IN  IF t[1] = "-" THEN 0 - DigitsValue(IntBody(k)) ELSE DigitsValue(IntBody(k))

\* needle in s, for two strings
IsSubstring(needle, s) ==
    \E p \in 0..(Len(s) - Len(needle)) :
        SubSeq(s, p + 1, p + Len(needle)) = needle

\* key in item
Contains(item, key) ==
    CASE item.kind = "map" -> Return(JInt(IF HasKey(item, key) THEN 1 ELSE 0))
      [] item.kind = "list" ->
             Return(JInt(IF \E j \in 1..Len(item.vals) : item.vals[j] = JStr(key)
                         THEN 1 ELSE 0))
      [] item.kind = "str" -> Return(JInt(IF IsSubstring(key, item.s) THEN 1 ELSE 0))
      [] OTHER -> Raise("TypeError")

\* item[key] for a string key
GetKey(item, key) ==
    CASE item.kind = "map" ->
             IF HasKey(item, key) THEN Return(MapGet(item, key)) ELSE Raise("KeyError")
      [] OTHER -> Raise("TypeError")

\* item[n] for an integer n
GetIndex(item, n) ==
    CASE item.kind = "list" ->
             IF n >= 0 /\ n < Len(item.vals) THEN Return(item.vals[n + 1])
             ELSE IF n < 0 /\ 0 - n <= Len(item.vals)
                  THEN Return(item.vals[Len(item.vals) + n + 1])
             ELSE Raise("IndexError")
      [] item.kind = "str" ->
             IF n >= 0 /\ n < Len(item.s) THEN Return(JStr(<<item.s[n + 1]>>))
             ELSE IF n < 0 /\ 0 - n <= Len(item.s)
                  THEN Return(JStr(<<item.s[Len(item.s) + n + 1]>>))
             ELSE Raise("IndexError")
      [] item.kind = "map" -> Raise("KeyError")
      [] OTHER -> Raise("TypeError")

-----------------------------------------------------------------------------
(* resolve_item *)

\* the loop over parts[1:]
RECURSIVE walk(_, _)
walk(item, parts) ==
    IF parts = <<>> THEN Return(item)
    ELSE LET k == Head(parts)
         IN  IF item.kind = "map" /\ ~HasKey(item, k) THEN Return(EmptyElement)
             ELSE IF item.kind = "list"
                  THEN IF ~IntParses(k) THEN Return(EmptyElement)
                       ELSE LET r == GetIndex(item, IntValue(k))
                            IN  IF r.outcome = "raise" THEN r
                                ELSE walk(r.value, Tail(parts))
             ELSE LET r == GetKey(item, k)
                  IN  IF r.outcome = "raise" THEN r
                      ELSE walk(r.value, Tail(parts))

\* parts instead of parts[1:]: the root token is walked too
resolve_item_keeps_root(raw, d) ==
    LET c == Contains(raw, K_ref)
    IN  IF c.outcome = "raise" THEN c
        ELSE IF c.value.n = 0 THEN Return(raw)
        ELSE LET ref == GetKey(raw, K_ref)
             IN  IF ref.outcome = "raise" THEN ref
                 ELSE IF ref.value.kind # "str" THEN Raise("AttributeError")
                 ELSE walk(d, split(ref.value.s, "/"))

resolve_item(raw, d) ==
    LET c == Contains(raw, K_ref)
    IN  IF c.outcome = "raise" THEN c
        ELSE IF c.value.n = 0 THEN Return(raw)
        ELSE LET ref == GetKey(raw, K_ref)
             IN  IF ref.outcome = "raise" THEN ref
                 ELSE IF ref.value.kind # "str" THEN Raise("AttributeError")
                 ELSE walk(d, Tail(split(ref.value.s, "/")))

-----------------------------------------------------------------------------
(* page_elements_from_json_document *)

Collected(cl) == [outcome |-> "return", clusters |-> cl, exc |-> ""]

Failed(e) == [outcome |-> "raise", clusters |-> [p \in {} |-> <<>>], exc |-> e]

\* insert(0, box) instead of append(box)
setdefault_insert_front(cl, page, box) ==
    IF page.kind \in {"list", "map"} THEN Failed("TypeError")
    ELSE IF page \in DOMAIN cl THEN Collected([cl EXCEPT ![page] = <<box>> \o @])
    ELSE Collected(cl @@ (page :> <<box>>))

\* clusters.setdefault(page, []).append(box); a list or a dict is no dict key
setdefault_append(cl, page, box) ==
    IF page.kind \in {"list", "map"} THEN Failed("TypeError")
    ELSE IF page \in DOMAIN cl THEN Collected([cl EXCEPT ![page] = Append(@, box)])
    ELSE Collected(cl @@ (page :> <<box>>))

\* the body of the loop over main-text, for one entry
add_entry(cl, raw, d) ==
    LET r == resolve_item(raw, d)
    IN  IF r.outcome = "raise" THEN Failed(r.exc)
        ELSE
        LET item == r.value
            c == Contains(item, K_prov)
        IN  IF c.outcome = "raise" THEN Failed(c.exc)
            ELSE IF c.value.n = 0 THEN Collected(cl)
            ELSE
            LET prov == GetKey(item, K_prov)
            IN  IF prov.outcome = "raise" THEN Failed(prov.exc)
                ELSE
                LET first == GetIndex(prov.value, 0)
                IN  IF first.outcome = "raise" THEN Failed(first.exc)
                    ELSE
                    LET page == GetKey(first.value, K_page)
                        item_type == GetKey(item, K_type)
                        box == GetKey(first.value, K_bbox)
                    IN  IF page.outcome = "raise" THEN Failed(page.exc)
                        ELSE IF item_type.outcome = "raise" THEN Failed(item_type.exc)
                        ELSE IF page.value.kind \in {"list", "map"} THEN Failed("TypeError")
                        ELSE IF box.outcome = "raise" THEN Failed(box.exc)
                        ELSE setdefault_append(cl, page.value,
                                 [page |-> page.value, type |-> item_type.value,
                                  bbox |-> box.value])

RECURSIVE collect(_, _, _)
collect(cl, entries, d) ==
    IF entries = <<>> THEN Collected(cl)
    ELSE LET r == add_entry(cl, Head(entries), d)
         IN  IF r.outcome = "raise" THEN r ELSE collect(r.clusters, Tail(entries), d)

\* main-text is a list in every document checked here
page_elements_from_json_document(d) ==
    LET mt == GetKey(d, K_main_text)
    IN  IF mt.outcome = "raise" THEN Failed(mt.exc)
        ELSE IF mt.value.kind # "list" THEN Failed("TypeError")
        ELSE collect([p \in {} |-> <<>>], mt.value.vals, d)

-----------------------------------------------------------------------------
(* draw_boxes *)

\* a JSON number in half units
Halves(v) == IF v.kind = "int" THEN 2 * v.n ELSE v.n

\* round() of a number given in half units: halves go to the even neighbour
round(h) ==
    IF h % 2 = 0 THEN h \div 2
    ELSE LET below == (h - 1) \div 2
         IN  IF below % 2 = 0 THEN below ELSE below + 1

\* top and bottom taken from the wrong ends of the bbox
raster_rect_swapped(b, d) ==
    <<round(b[1]), round(d[2] - b[2]), round(b[3]), round(d[2] - b[4])>>

\* the rect of one cluster, all arguments in half units
raster_rect(b, d) ==
    <<round(b[1]), round(d[2] - b[4]), round(b[3]), round(d[2] - b[2])>>

IsNumber(v) == v.kind \in {"int", "float"}

\* bbox[n] as draw_boxes uses it: a number, or the exception
coordinate(b, n) ==
    LET c == GetIndex(b, n)
    IN  IF c.outcome = "return" /\ ~IsNumber(c.value) THEN Raise("TypeError") ELSE c

Drawn(rects) == [outcome |-> "return", rects |-> rects, exc |-> ""]

NotDrawn(e) == [outcome |-> "raise", rects |-> <<>>, exc |-> e]

\* the loop of draw_boxes: the rects handed to drw.rectangle, in order.
\* The fill and outline colours do not enter any property checked here.
RECURSIVE draw_boxes(_, _)
draw_boxes(d, boxes) ==
    IF boxes = <<>> THEN Drawn(<<>>)
    ELSE LET b == Head(boxes).bbox
             c0 == coordinate(b, 0)
             c3 == coordinate(b, 3)
             c2 == coordinate(b, 2)
             c1 == coordinate(b, 1)
             rest == draw_boxes(d, Tail(boxes))
         IN  IF c0.outcome = "raise" THEN NotDrawn(c0.exc)
             ELSE IF c3.outcome = "raise" THEN NotDrawn(c3.exc)
             ELSE IF c2.outcome = "raise" THEN NotDrawn(c2.exc)
             ELSE IF c1.outcome = "raise" THEN NotDrawn(c1.exc)
             ELSE IF Head(boxes).type.kind # "str" THEN NotDrawn("AttributeError")
             ELSE IF rest.outcome = "raise" THEN rest
             ELSE Drawn(<<raster_rect(<<Halves(c0.value), Halves(c1.value),
                                        Halves(c2.value), Halves(c3.value)>>, d)>>
                            \o rest.rects)

-----------------------------------------------------------------------------
(* visualize_document_bboxes *)

SHOW_PDF_IMAGE == TRUE

SHOW_CLUSTER_BOXES == TRUE

ncols == 3

\* sorted(clusters.keys()); page numbers are integers in every document
\* checked here
RECURSIVE sorted(_)
sorted(keys) ==
    IF keys = {} THEN <<>>
    ELSE LET least == CHOOSE k \in keys : \A other \in keys : k.n <= other.n
         IN  <<least>> \o sorted(keys \ {least})

\* one pass per box instead of one per page
RECURSIVE repeat(_, _)
repeat(page, n) == IF n = 0 THEN <<>> ELSE <<page>> \o repeat(page, n - 1)

RECURSIVE pages_of_boxes(_, _)
pages_of_boxes(cl, keys) ==
    IF keys = <<>> THEN <<>>
    ELSE repeat(Head(keys), Len(cl[Head(keys)])) \o pages_of_boxes(cl, Tail(keys))

sorted_box_pages(cl) == pages_of_boxes(cl, sorted(DOMAIN cl))

sorted_keys(cl) == sorted(DOMAIN cl)

\* {dims["page"]: dims for dims in doc_jsondata["page-dimensions"]}
RECURSIVE dims_by_page(_)
dims_by_page(entries) ==
    IF entries = <<>> THEN [outcome |-> "return", map |-> [p \in {} |-> <<>>], exc |-> ""]
    ELSE LET rest == dims_by_page(SubSeq(entries, 1, Len(entries) - 1))
             page == GetKey(entries[Len(entries)], K_page)
         IN  IF rest.outcome = "raise" THEN rest
             ELSE IF page.outcome = "raise"
                  THEN [outcome |-> "raise", map |-> [p \in {} |-> <<>>], exc |-> page.exc]
             ELSE [outcome |-> "return",
                   map |-> [p \in DOMAIN rest.map \cup {page.value} |->
                                IF p = page.value THEN entries[Len(entries)]
                                ELSE rest.map[p]],
                   exc |-> ""]

pages_to_dims(d) ==
    LET pd == GetKey(d, K_page_dimensions)
    IN  IF pd.outcome = "raise"
        THEN [outcome |-> "raise", map |-> [p \in {} |-> <<>>], exc |-> pd.exc]
        ELSE IF pd.value.kind = "list" THEN dims_by_page(pd.value.vals)
        ELSE IF pd.value.kind \in {"map", "str"} /\ pd.value.keys = <<>> /\ pd.value.s = <<>>
             THEN [outcome |-> "return", map |-> [p \in {} |-> <<>>], exc |-> ""]
        ELSE [outcome |-> "raise", map |-> [p \in {} |-> <<>>], exc |-> "TypeError"]

\* pieces of output_html
Markup(t) == [t |-> t, page |-> JInt(0), rects |-> <<>>]

PageLabel(page) == [t |-> "<strong>Page</strong><br />", page |-> page, rects |-> <<>>]

PageImage(page, rects) == [t |-> "<img />", page |-> page, rects |-> rects]

\* what one pass of the page loop appends to output_html
row_break(n) ==
    IF n = 0 THEN <<Markup("<tr>")>>
    ELSE IF n % ncols = 0 THEN <<Markup("</tr><tr>")>>
    ELSE <<>>

table_cell(page, rects) ==
    <<Markup("<td>"), PageLabel(page), PageImage(page, rects), Markup("</td>")>>

-----------------------------------------------------------------------------
(* Documents and main-text entries the checks run on *)

MaxRefTokens == 3

MaxMainText == 3

MaxCoord == 3

MaxBatch == 2

\* a layout element located on one page
Element(type, page, box) ==
    JMap(<<K_type, K_prov>>,
         <<JStr(type),
           JList(<<JMap(<<K_page, K_bbox>>, <<JInt(page), JList(box)>>)>>)>>)

\* a layout element whose provenance spans two pages
Element2(type, page, box, page2, box2) ==
    JMap(<<K_type, K_prov>>,
         <<JStr(type),
           JList(<<JMap(<<K_page, K_bbox>>, <<JInt(page), JList(box)>>),
                   JMap(<<K_page, K_bbox>>, <<JInt(page2), JList(box2)>>)>>)>>)

RefItem(cs) == JMap(<<K_ref>>, <<JStr(cs)>>)

Box(x0, y0, x1, y1) == <<JInt(x0), JInt(y0), JInt(x1), JFloat(y1)>>

T_table == <<"t", "a", "b", "l", "e">>

T_text == <<"t", "e", "x", "t">>

E1 == Element(T_text, 1, Box(0, 1, 2, 5))

E2 == Element(T_table, 1, Box(1, 0, 3, 4))

E3 == Element2(T_text, 2, Box(0, 0, 1, 3), 3, Box(1, 1, 2, 2))

PageDim(page, w, h) ==
    JMap(<<K_page, K_width, K_height>>, <<JInt(page), JFloat(w), JFloat(h)>>)

\* a converted document: main-text, page-dimensions, and the containers that
\* references point into ("a": a list, "b": a mapping, "c": a string, "n": a number)
Document(main_text, page_dims) ==
    JMap(<<K_main_text, K_page_dimensions, <<"a">>, <<"b">>, <<"c">>, <<"n">>>>,
         <<JList(main_text),
           JList(page_dims),
           JList(<<E1, E2, E3>>),
           JMap(<<<<"0">>, <<"a">>, <<"-", "1">>, <<>>>>,
                <<E2, JList(<<E3, E1>>), E1, E3>>),
           JStr(<<"a", "p", "p", "r", "o", "v", "e">>),
           JInt(7)>>)

ThreePages == <<PageDim(1, 12, 16), PageDim(2, 12, 16), PageDim(3, 12, 16)>>

\* the same containers under other names, and an empty list
OtherDocument ==
    JMap(<<K_main_text, <<"a">>, <<"x">>>>,
         <<JList(<<>>), JMap(<<<<"1">>>>, <<E1>>), JList(<<>>)>>)

ResolveDocs == {Document(<<E1>>, ThreePages), OtherDocument}

Tokens ==
    {<<"a">>, <<"b">>, <<"c">>, <<>>, <<"0">>, <<"1">>, <<"3">>,
     <<"-", "1">>, <<"-", "4">>, <<" ", "0", "_", "1">>}

TokenSeqs == UNION {[1..n -> Tokens] : n \in 0..MaxRefTokens}

RECURSIVE JoinTokens(_)
JoinTokens(toks) ==
    IF toks = <<>> THEN <<>> ELSE <<"/">> \o Head(toks) \o JoinTokens(Tail(toks))

\* "#/a/0": the root token, then the tokens, each behind a "/"
RefString(root, toks) == root \o JoinTokens(toks)

Roots == {<<"#">>, <<>>}

ResolveItems ==
    {RefItem(RefString(root, toks)) : root \in Roots, toks \in TokenSeqs}
        \cup {E1, EmptyElement, JMap(<<K_ref>>, <<JInt(0)>>)}

EmptyClusters == [p \in {} |-> <<>>]

NoFile == [written |-> 0, content |-> <<>>]

RectIdle == bbox = <<0, 0, 0, 0>> /\ dims = <<0, 0>> /\ rect = <<>>

LoopIdle ==
    /\ batch = <<>> /\ idx = 0 /\ pc = "idle" /\ pages = <<>> /\ i = 0
    /\ output_html = <<>> /\ file = NoFile /\ visualized = {} /\ exc = ""

-----------------------------------------------------------------------------
(* resolve_item on every entry and document above *)

InitResolve ==
    /\ raw_item \in ResolveItems
    /\ doc \in ResolveDocs
    /\ result = NotCalled
    /\ clusters = EmptyClusters
    /\ RectIdle
    /\ LoopIdle

Resolve ==
    /\ result.outcome = "none"
    /\ result' = resolve_item(raw_item, doc)
    /\ UNCHANGED <<raw_item, doc, bbox, dims, rect, batch, idx, pc, clusters,
                   pages, i, output_html, file, visualized, exc>>

NextResolve == Resolve

SpecResolve == InitResolve /\ [][NextResolve]_vars

\* a token that is a decimal index: digits only
IsIndexToken(tok) == tok # <<>> /\ \A j \in 1..Len(tok) : IsDigit(tok[j])

RECURSIVE IndexOf(_)
IndexOf(tok) ==
    IF tok = <<>> THEN 0
    ELSE 10 * IndexOf(SubSeq(tok, 1, Len(tok) - 1)) + DigitVal(tok[Len(tok)])

\* one step down an existing path
StepExists(v, tok) ==
    \/ v.kind = "map" /\ HasKey(v, tok)
    \/ v.kind = "list" /\ IsIndexToken(tok) /\ IndexOf(tok) < Len(v.vals)

Child(v, tok) == IF v.kind = "map" THEN MapGet(v, tok) ELSE v.vals[IndexOf(tok) + 1]

RECURSIVE PathExists(_, _)
PathExists(v, toks) ==
    \/ toks = <<>>
    \/ StepExists(v, Head(toks)) /\ PathExists(Child(v, Head(toks)), Tail(toks))

RECURSIVE ValueAt(_, _)
ValueAt(v, toks) ==
    IF toks = <<>> THEN v ELSE ValueAt(Child(v, Head(toks)), Tail(toks))

\* the walk gets through existing steps to a mapping without the token, or
\* to a sequence whose index token is past its end
RECURSIVE HitsMissing(_, _)
HitsMissing(v, toks) ==
    /\ toks # <<>>
    /\ \/ v.kind = "map" /\ ~HasKey(v, Head(toks))
       \/ v.kind = "list" /\ IsIndexToken(Head(toks)) /\ IndexOf(Head(toks)) >= Len(v.vals)
       \/ StepExists(v, Head(toks)) /\ HitsMissing(Child(v, Head(toks)), Tail(toks))

\* the walk gets through existing steps to a sequence with a token that is
\* no non-negative integer
RECURSIVE HitsBadIndex(_, _)
HitsBadIndex(v, toks) ==
    /\ toks # <<>>
    /\ \/ v.kind = "list" /\ (~IntParses(Head(toks)) \/ IntValue(Head(toks)) < 0)
       \/ StepExists(v, Head(toks)) /\ HitsBadIndex(Child(v, Head(toks)), Tail(toks))

\* the pieces of a string between its "/", found from the right
RECURSIVE Pieces(_)
Pieces(cs) ==
    IF \A j \in 1..Len(cs) : cs[j] # "/"
    THEN <<cs>>
    ELSE LET p == CHOOSE j \in 1..Len(cs) :
                      cs[j] = "/" /\ \A q \in (j + 1)..Len(cs) : cs[q] # "/"
         IN  Pieces(SubSeq(cs, 1, p - 1)) \o <<SubSeq(cs, p + 1, Len(cs))>>

IsReference(raw) == HasKey(raw, K_ref) /\ MapGet(raw, K_ref).kind = "str"

\* the tokens of a reference behind its root token
PathTokens(raw) == Tail(Pieces(MapGet(raw, K_ref).s))

Resolved == result.outcome # "none" /\ IsReference(raw_item)

\* C1: a reference that runs into a missing mapping key or an out-of-range
\* sequence index makes resolve_item return {} and never raise.
C1_UnresolvableReturnsEmpty ==
    (Resolved /\ HitsMissing(doc, PathTokens(raw_item)))
        => result = Return(EmptyElement)

\* C2: in a sequence, a token that is no non-negative integer makes
\* resolve_item return {}; no member of the sequence is returned for it.
C2_BadIndexReturnsEmpty ==
    (Resolved /\ HitsBadIndex(doc, PathTokens(raw_item)))
        => result = Return(EmptyElement)

\* C3: a reference whose tokens behind the root token name an existing path
\* resolves to exactly the value at that path.
C3_ExistingPathResolves ==
    (Resolved /\ PathExists(doc, PathTokens(raw_item)))
        => result = Return(ValueAt(doc, PathTokens(raw_item)))

\* a three-token path through a mapping and a sequence has been resolved
C3_Witness ==
    /\ Resolved
    /\ PathTokens(raw_item) = <<<<"b">>, <<"a">>, <<"1">>>>
    /\ PathExists(doc, PathTokens(raw_item))
    /\ result = Return(E1)

-----------------------------------------------------------------------------
(* page_elements_from_json_document on every main-text of up to MaxMainText
   entries *)

NoProvenance == JMap(<<K_type>>, <<JStr(T_text)>>)

EmptyProvenance == JMap(<<K_type, K_prov>>, <<JStr(T_text), JList(<<>>)>>)

NoType ==
    JMap(<<K_prov>>,
         <<JList(<<JMap(<<K_page, K_bbox>>, <<JInt(2), JList(Box(0, 0, 1, 1))>>)>>)>>)

ExtractItems ==
    {E1, E2, E3,
     RefItem(<<"#", "/", "a", "/", "0">>),
     RefItem(<<"#", "/", "a", "/", "2">>),
     RefItem(<<"#", "/", "a", "/", "9">>),
     RefItem(<<"#", "/", "b", "/", "3">>),
     RefItem(<<"#", "/", "n">>),
     RefItem(<<"#", "/", "c">>),
     NoProvenance, EmptyProvenance, NoType}

MainTexts == UNION {[1..n -> ExtractItems] : n \in 0..MaxMainText}

InitExtract ==
    /\ doc \in {Document(mt, ThreePages) : mt \in MainTexts}
    /\ raw_item = EmptyElement
    /\ result = NotCalled
    /\ clusters = EmptyClusters
    /\ RectIdle
    /\ LoopIdle

Extract ==
    /\ result.outcome = "none"
    /\ LET r == page_elements_from_json_document(doc)
       IN  /\ clusters' = r.clusters
           /\ result' = IF r.outcome = "raise" THEN Raise(r.exc)
                        ELSE Return(EmptyElement)
    /\ UNCHANGED <<raw_item, doc, bbox, dims, rect, batch, idx, pc, pages, i,
                   output_html, file, visualized, exc>>

NextExtract == Extract

SpecExtract == InitExtract /\ [][NextExtract]_vars

MainText(d) == MapGet(d, K_main_text).vals

\* the element an entry stands for (the entry itself, or what it refers to)
ElementOf(raw, d) == resolve_item(raw, d).value

HasProvenance(e) == e.kind = "map" /\ HasKey(e, K_prov)

FirstProvenance(e) == MapGet(e, K_prov).vals[1]

PageOf(e) == MapGet(FirstProvenance(e), K_page)

BoxOf(e) ==
    [page |-> PageOf(e), type |-> MapGet(e, K_type),
     bbox |-> MapGet(FirstProvenance(e), K_bbox)]

\* the boxes of the entries located on page p, in main-text order
RECURSIVE BoxesOnPage(_, _, _)
BoxesOnPage(entries, d, p) ==
    IF entries = <<>> THEN <<>>
    ELSE LET e == ElementOf(Head(entries), d)
         IN  (IF HasProvenance(e) /\ PageOf(e) = p THEN <<BoxOf(e)>> ELSE <<>>)
                 \o BoxesOnPage(Tail(entries), d, p)

\* an element record with a type label and a first provenance record that
\* has a page and a bbox
WellFormed(e) ==
    /\ e.kind = "map" /\ HasKey(e, K_type) /\ HasKey(e, K_prov)
    /\ MapGet(e, K_prov).kind = "list" /\ MapGet(e, K_prov).vals # <<>>
    /\ FirstProvenance(e).kind = "map"
    /\ HasKey(FirstProvenance(e), K_page) /\ HasKey(FirstProvenance(e), K_bbox)

\* C4: the returned map has, under each page, exactly the entries with
\* provenance whose first provenance record is on that page, with that
\* record's bbox, in main-text order, and it has no other key; and a map is
\* returned whenever every entry resolves to a well-formed element.
C4_GroupedByFirstPageInOrder ==
    LET mt == MainText(doc)
        located == {j \in 1..Len(mt) : HasProvenance(ElementOf(mt[j], doc))}
    IN  /\ result.outcome = "return" =>
               /\ DOMAIN clusters = {PageOf(ElementOf(mt[j], doc)) : j \in located}
               /\ \A p \in DOMAIN clusters : clusters[p] = BoxesOnPage(mt, doc, p)
        /\ (/\ result.outcome # "none"
            /\ \A j \in 1..Len(mt) :
                   /\ resolve_item(mt[j], doc).outcome = "return"
                   /\ WellFormed(ElementOf(mt[j], doc)))
               => result.outcome = "return"

\* pages {1, 1, 2}, the last one an element with a second record on page 3
C4_Witness ==
    /\ result.outcome = "return"
    /\ MainText(doc) = <<E1, RefItem(<<"#", "/", "a", "/", "2">>), E2>>
    /\ DOMAIN clusters = {JInt(1), JInt(2)}
    /\ clusters[JInt(1)] = <<BoxOf(E1), BoxOf(E2)>>
    /\ clusters[JInt(2)] = <<BoxOf(E3)>>

RECURSIVE WellFormedOnPage(_, _, _)
WellFormedOnPage(entries, d, p) ==
    IF entries = <<>> THEN <<>>
    ELSE LET e == ElementOf(Head(entries), d)
         IN  (IF WellFormed(e) /\ PageOf(e) = p THEN <<BoxOf(e)>> ELSE <<>>)
                 \o WellFormedOnPage(Tail(entries), d, p)

\* C5: entries with a missing reference target, without provenance or
\* without a type label are skipped: the call does not raise and returns
\* every well-formed element.  (Stated for main-texts whose references
\* resolve_item itself does not raise on.)
C5_MalformedEntriesSkipped ==
    LET mt == MainText(doc)
    IN  (/\ result.outcome # "none"
         /\ \A j \in 1..Len(mt) : resolve_item(mt[j], doc).outcome = "return")
            => /\ result.outcome = "return"
               /\ \A j \in 1..Len(mt) :
                      WellFormed(ElementOf(mt[j], doc)) =>
                          /\ PageOf(ElementOf(mt[j], doc)) \in DOMAIN clusters
                          /\ clusters[PageOf(ElementOf(mt[j], doc))]
                                 = WellFormedOnPage(mt, doc, PageOf(ElementOf(mt[j], doc)))

-----------------------------------------------------------------------------
(* draw_boxes on every bbox and page height of the coordinate range *)

\* coordinates in half units, from -1.0 to MaxCoord
Coords == (0 - 2)..(2 * MaxCoord)

\* bbox (10, 20, 30, 40) on a page of height 100
ExampleBox == <<20, 40, 60, 80>>

ExampleDims == <<200, 200>>

InitRect ==
    /\ \/ bbox \in [1..4 -> Coords] /\ dims \in {<<w, h>> : w \in {2 * MaxCoord}, h \in Coords}
       \/ bbox = ExampleBox /\ dims = ExampleDims
    /\ rect = <<>>
    /\ raw_item = EmptyElement
    /\ doc = EmptyElement
    /\ result = NotCalled
    /\ clusters = EmptyClusters
    /\ LoopIdle

DrawBox ==
    /\ rect = <<>>
    /\ rect' = raster_rect(bbox, dims)
    /\ UNCHANGED <<raw_item, doc, result, bbox, dims, batch, idx, pc, clusters,
                   pages, i, output_html, file, visualized, exc>>

NextRect == DrawBox

SpecRect == InitRect /\ [][NextRect]_vars

IsWhole(h) == h % 2 = 0

\* C6: for integer coordinates the rect is (x0, H - y1, x1, H - y0), so
\* (10, 20, 30, 40) on height 100 gives (10, 60, 30, 80); and an ordered
\* bbox gives an ordered rect.
C6_RectFlipsY ==
    rect # <<>> =>
        /\ (IsWhole(dims[2]) /\ \A k \in 1..4 : IsWhole(bbox[k])) =>
               rect = <<bbox[1] \div 2, (dims[2] - bbox[4]) \div 2,
                        bbox[3] \div 2, (dims[2] - bbox[2]) \div 2>>
        /\ (bbox = ExampleBox /\ dims = ExampleDims) => rect = <<10, 60, 30, 80>>
        /\ (bbox[1] <= bbox[3] /\ bbox[2] <= bbox[4]) =>
               (rect[1] <= rect[3] /\ rect[2] <= rect[4])

\* the example of the claim has been drawn
C6_Witness == bbox = ExampleBox /\ dims = ExampleDims /\ rect = <<10, 60, 30, 80>>

-----------------------------------------------------------------------------
(* The archive loop: every data file of the archives, in order *)

FourPages == ThreePages \o <<PageDim(4, 12, 16)>>

E4 == Element(T_table, 4, Box(0, 0, 2, 2))

E5 == Element(T_text, 3, Box(1, 1, 2, 3))

\* the converted documents found in the archives:
\*   1  elements on pages 1, 1, 2 of a three-page document
\*   2  elements on pages 4, 1, 3, 2 of a four-page document
\*   3  no element with provenance
\*   4  an element with an empty prov list
\*   5  an element on a page that page-dimensions does not list
BatchDoc(d) ==
    CASE d = 1 -> Document(<<E1, E2, RefItem(<<"#", "/", "a", "/", "2">>)>>, ThreePages)
      [] d = 2 -> Document(<<E4, E1, E5, E3, NoProvenance>>, FourPages)
      [] d = 3 -> Document(<<NoProvenance, RefItem(<<"#", "/", "b", "/", "3">>)>>, ThreePages)
      [] d = 4 -> Document(<<E1, EmptyProvenance>>, ThreePages)
      [] d = 5 -> Document(<<E1, E4>>, ThreePages)

BatchDocs == 1..5

\* a name of an archive: its extension, whether <basename>.json parses,
\* the state of <basename>.cells, and the document the .json holds
Entries ==
    {[ext |-> ".cells", json |-> "ok", cells |-> "ok", doc |-> 1],
     [ext |-> ".json", json |-> "corrupt", cells |-> "ok", doc |-> 1]}
        \cup [ext : {".json"}, json : {"ok"}, cells : {"ok", "corrupt", "missing"},
              doc : BatchDocs]

Init ==
    /\ batch \in UNION {[1..n -> Entries] : n \in 0..MaxBatch}
    /\ idx = 0
    /\ pc = "main"
    /\ doc = EmptyElement
    /\ clusters = EmptyClusters
    /\ pages = <<>>
    /\ i = 0
    /\ output_html = <<>>
    /\ file = NoFile
    /\ visualized = {}
    /\ exc = ""
    /\ raw_item = EmptyElement
    /\ result = NotCalled
    /\ RectIdle

Unused == <<raw_item, result, bbox, dims, rect>>

\* an uncaught exception ends the script
Crash(e) == pc' = "crashed" /\ exc' = e

\* a name that does not end in ".json": continue
SkipName ==
    /\ pc = "main" /\ idx < Len(batch)
    /\ batch[idx + 1].ext # ".json"
    /\ idx' = idx + 1
    /\ UNCHANGED <<doc, pc, clusters, pages, i, output_html, file, visualized, exc,
                   batch, Unused>>

\* json.loads(archive.read(<basename>.json)) raises
LoadFails ==
    /\ pc = "main" /\ idx < Len(batch)
    /\ batch[idx + 1].ext = ".json"
    /\ batch[idx + 1].json # "ok"
    /\ idx' = idx + 1
    /\ Crash("JSONDecodeError")
    /\ UNCHANGED <<doc, clusters, pages, i, output_html, file, visualized, batch, Unused>>

\* The document is loaded; reading <basename>.cells raises in every case
\* (archive.read returns bytes, which is no context manager, or the member is
\* missing) and the except clause swallows it; visualize_document_bboxes
\* then runs up to its page loop.
Visualize ==
    /\ pc = "main" /\ idx < Len(batch)
    /\ batch[idx + 1].ext = ".json"
    /\ batch[idx + 1].json = "ok"
    /\ idx' = idx + 1
    /\ doc' = BatchDoc(batch[idx + 1].doc)
    /\ LET cl == page_elements_from_json_document(doc')
           pd == pages_to_dims(doc')
       IN  IF cl.outcome = "raise"
           THEN Crash(cl.exc) /\ UNCHANGED <<clusters, pages, i, output_html>>
           ELSE IF pd.outcome = "raise"
           THEN Crash(pd.exc) /\ UNCHANGED <<clusters, pages, i, output_html>>
           ELSE /\ clusters' = cl.clusters
                /\ pages' = sorted_keys(cl.clusters)
                /\ i' = 0
                /\ output_html' = <<Markup("<table>")>>
                /\ pc' = "pages"
                /\ exc' = exc
    /\ UNCHANGED <<file, visualized, batch, Unused>>

\* one pass of the page loop: the page is rasterized, its boxes are drawn
\* and its cell is appended
RenderPage ==
    /\ pc = "pages" /\ i < Len(pages)
    /\ LET page == pages[i + 1]
           pd == pages_to_dims(doc).map
       IN  /\ page \in DOMAIN pd
           /\ LET w == GetKey(pd[page], K_width)
                  h == GetKey(pd[page], K_height)
                  drawn == IF SHOW_CLUSTER_BOXES /\ w.outcome = "return" /\ h.outcome = "return"
                           THEN draw_boxes(<<Halves(w.value), Halves(h.value)>>, clusters[page])
                           ELSE Drawn(<<>>)
              IN  IF w.outcome = "raise" \/ h.outcome = "raise"
                  THEN Crash("KeyError") /\ UNCHANGED <<i, output_html>>
                  ELSE IF drawn.outcome = "raise"
                  THEN Crash(drawn.exc) /\ UNCHANGED <<i, output_html>>
                  ELSE /\ output_html' = output_html \o row_break(i)
                                             \o table_cell(page, drawn.rects)
                       /\ i' = i + 1
                       /\ UNCHANGED <<pc, exc>>
    /\ UNCHANGED <<doc, idx, clusters, pages, file, visualized, batch, Unused>>

\* pages_to_dims[page] raises KeyError
PageDimsMissing ==
    /\ pc = "pages" /\ i < Len(pages)
    /\ pages[i + 1] \notin DOMAIN pages_to_dims(doc).map
    /\ Crash("KeyError")
    /\ UNCHANGED <<doc, idx, clusters, pages, i, output_html, file, visualized,
                   batch, Unused>>

\* the table built so far is saved when the rasterization fails
RenderFails_saves_partial ==
    /\ pc = "pages" /\ i < Len(pages)
    /\ pages[i + 1] \in DOMAIN pages_to_dims(doc).map
    /\ SHOW_PDF_IMAGE
    /\ Crash("RuntimeError")
    /\ file' = [written |-> file.written + 1, content |-> output_html]
    /\ UNCHANGED <<doc, idx, clusters, pages, i, output_html, visualized,
                   batch, Unused>>

\* pdftoppm exits non-zero: pdf_to_page_image raises RuntimeError
RenderFails ==
    /\ pc = "pages" /\ i < Len(pages)
    /\ pages[i + 1] \in DOMAIN pages_to_dims(doc).map
    /\ GetKey(pages_to_dims(doc).map[pages[i + 1]], K_width).outcome = "return"
    /\ GetKey(pages_to_dims(doc).map[pages[i + 1]], K_height).outcome = "return"
    /\ SHOW_PDF_IMAGE
    /\ Crash("RuntimeError")
    /\ UNCHANGED <<doc, idx, clusters, pages, i, output_html, file, visualized,
                   batch, Unused>>

\* after the page loop: the table is closed, written to saving.html and displayed
WriteHtml ==
    /\ pc = "pages" /\ i = Len(pages)
    /\ output_html' = output_html \o <<Markup("</tr></table>")>>
    /\ file' = [written |-> file.written + 1, content |-> output_html']
    /\ visualized' = visualized \cup {idx}
    /\ pc' = "main"
    /\ UNCHANGED <<doc, idx, clusters, pages, i, exc, batch, Unused>>

\* no name is left
Finish ==
    /\ pc = "main" /\ idx = Len(batch)
    /\ pc' = "done"
    /\ UNCHANGED <<doc, idx, clusters, pages, i, output_html, file, visualized, exc,
                   batch, Unused>>

Next ==
    \/ SkipName
    \/ LoadFails
    \/ Visualize
    \/ RenderPage
    \/ PageDimsMissing
    \/ RenderFails
    \/ WriteHtml
    \/ Finish

Spec == Init /\ [][Next]_vars

-----------------------------------------------------------------------------
(* Properties of the archive loop *)

\* the entry holds a document that json.loads accepts
IsDocument(e) == e.ext = ".json" /\ e.json = "ok"

\* the entry holds a document with at least one page to render
HasPages(e) ==
    /\ IsDocument(e)
    /\ DOMAIN page_elements_from_json_document(BatchDoc(e.doc)).clusters # {}

\* C7: when the rasterization of a page of a document fails, every document
\* behind it in the batch is still visualized.
C7_RenderFailureSparesLaterDocuments ==
    (pc = "crashed" /\ exc = "RuntimeError") =>
        \A j \in (idx + 1)..Len(batch) : IsDocument(batch[j]) => j \in visualized

\* C8: a data file that cannot be read or parsed never ends the loop: the
\* error is caught and the next document is handled.
C8_UnreadableDataFileIsCaught ==
    \A j \in 1..Len(batch) :
        (batch[j].ext = ".json" /\ (batch[j].json # "ok" \/ batch[j].cells # "ok"))
            => ~(pc = "crashed" /\ idx = j /\ exc = "JSONDecodeError")

IsLabel(piece) == piece.t = "<strong>Page</strong><br />"

IsCell(piece) == piece.t = "<td>"

IsImage(piece) == piece.t = "<img />"

\* the pages labelled in a table, in table order
RECURSIVE LabelPages(_)
LabelPages(html) ==
    IF html = <<>> THEN <<>>
    ELSE (IF IsLabel(Head(html)) THEN <<Head(html).page>> ELSE <<>>)
             \o LabelPages(Tail(html))

\* pages are still to be processed: in the document at hand, or in a later one
PagesRemain(at_pc, at_i, at_idx) ==
    \/ at_pc = "pages" /\ at_i < Len(pages)
    \/ at_pc \in {"main", "pages"}
           /\ \E j \in (at_idx + 1)..Len(batch) : HasPages(batch[j])

\* C9 as claimed: saving.html is written only when no page of the batch is
\* left to process, and a failing rasterization leaves it as it was.
C9_WrittenAfterWholeBatch ==
    [][/\ file' # file => ~PagesRemain(pc', i', idx')
       /\ (pc' = "crashed" /\ exc' = "RuntimeError") => file' = file]_vars

\* C9 as amended: saving.html is written only when every page of the
\* document being visualized has its cell in the table written, and a
\* failing rasterization leaves it as it was.
C9_WrittenAfterWholeDocument ==
    [][/\ file' # file =>
              /\ pc = "pages" /\ i = Len(pages)
              /\ LabelPages(file'.content) = pages
              /\ file'.content[Len(file'.content)] = Markup("</tr></table>")
       /\ (pc' = "crashed" /\ exc' = "RuntimeError") => file' = file]_vars

\* a rasterization failed part-way through the second document, after the
\* first one was written
C9_Witness ==
    /\ pc = "crashed" /\ exc = "RuntimeError"
    /\ idx = 2 /\ i > 0
    /\ visualized = {1}
    /\ file.written = 1
    /\ LabelPages(file.content) = sorted_keys(
           page_elements_from_json_document(BatchDoc(batch[1].doc)).clusters)

\* the table of the document at hand has just been written
TableWritten == pc \in {"main", "done"} /\ idx \in visualized

Ascending(ps) == \A k \in 1..(Len(ps) - 1) : ps[k].n < ps[k + 1].n

OneCellPerPage(html, ps) ==
    /\ {LabelPages(html)[k] : k \in 1..Len(LabelPages(html))} = ps
    /\ Len(LabelPages(html)) = Cardinality(ps)
    /\ Len(SelectSeq(html, IsCell)) = Cardinality(ps)
    /\ Len(SelectSeq(html, IsImage)) = Cardinality(ps)

\* the pages page-dimensions lists
ListedPages(d) ==
    {MapGet(MapGet(d, K_page_dimensions).vals[k], K_page) :
         k \in 1..Len(MapGet(d, K_page_dimensions).vals)}

\* the pages on which main-text locates at least one element
LocatedPages(d) ==
    {PageOf(ElementOf(MainText(d)[j], d)) :
         j \in {k \in 1..Len(MainText(d)) : HasProvenance(ElementOf(MainText(d)[k], d))}}

\* C10 as claimed: the table has exactly one cell for every page listed in
\* page-dimensions.
C10_OneCellPerListedPage ==
    TableWritten => OneCellPerPage(file.content, ListedPages(doc))

\* C10 as amended: the table has exactly one cell, with the page's label,
\* for every page on which an element with provenance is located, in
\* ascending page order, and none for any other page.
C10_OneCellPerLocatedPage ==
    TableWritten =>
        /\ OneCellPerPage(file.content, LocatedPages(doc))
        /\ Ascending(LabelPages(file.content))

\* the table of document 1 is written: cells for pages 1 and 2, none for the
\* listed page 3
C10_Witness ==
    /\ TableWritten
    /\ doc = BatchDoc(1)
    /\ LabelPages(file.content) = <<JInt(1), JInt(2)>>
    /\ JInt(3) \in ListedPages(doc)

====
